---- MODULE Spec2Model ----
(***************************************************************************)
(* Model of holz_smb_connector/smb_connector.py: the SMBConnector session, *)
(* its directory and file operations and the copy/move orchestration,      *)
(* running against a model of the remote share served by the protocol      *)
(* client (pysmb's SMBConnection).                                         *)
(*                                                                         *)
(* Python strings are sequences of one-character strings, so that the      *)
(* path join and split of the code are computed, not assumed.  File        *)
(* contents are sequences of bytes.                                        *)
(***************************************************************************)
EXTENDS Integers, Sequences, FiniteSets, TLC

\* ------------------------------------------------------------------ bounds
MaxLen == 1        \* longest file content written by the caller
MaxDepth == 2      \* deepest nesting of `with connector:` blocks
MaxScopes == 1     \* retrieve_file scopes open at the same time
MaxRaw == 2        \* longest raw listing returned by listPath

\* ----------------------------------------------------------- path strings
SLASH == "/"

P_empty == << >>
P_a == <<"a">>
P_b == <<"b">>
P_ab == <<"a", "/", "b">>
P_abc == <<"a", "/", "b", "/", "c">>
P_w == <<"w">>

\* the values of work_dir the connector is constructed with
WorkDirs == {P_empty, P_w}
\* relative paths handed to the file operations
FilePaths == {P_a, P_b}
\* relative paths handed to the directory operations
DirPaths == {P_empty, P_a, P_ab, P_abc}

\* a join that leaves the separator out after an empty work root
JoinSkipEmpty(work, path) == IF work = << >> THEN path ELSE work \o <<SLASH>> \o path

\* "/".join([self.work_dir, path])
Join(work, path) == work \o <<SLASH>> \o path

HasSlash(s) == \E i \in 1..Len(s) : s[i] = SLASH
FirstSlash(s) == CHOOSE i \in 1..Len(s) :
                    s[i] = SLASH /\ \A j \in 1..(i - 1) : s[j] # SLASH

\* str.split("/"): n separators give n + 1 parts, empty parts are kept
RECURSIVE Split(_)
Split(s) == IF ~HasSlash(s) THEN <<s>>
            ELSE <<SubSeq(s, 1, FirstSlash(s) - 1)>>
                 \o Split(SubSeq(s, FirstSlash(s) + 1, Len(s)))

\* current_path = f"{dirs.pop(0)}/": an assignment in place of the +=
RECURSIVE PrefixesReset(_, _)
PrefixesReset(current, parts) ==
    IF parts = << >> THEN << >>
    ELSE <<Head(parts) \o <<SLASH>> >>
         \o PrefixesReset(Head(parts) \o <<SLASH>>, Tail(parts))

\* the successive values of current_path in create_dir:
\* current_path += f"{dirs.pop(0)}/"
RECURSIVE Prefixes(_, _)
Prefixes(current, parts) ==
    IF parts = << >> THEN << >>
    ELSE <<current \o Head(parts) \o <<SLASH>> >>
         \o Prefixes(current \o Head(parts) \o <<SLASH>>, Tail(parts))

CreateDirPaths(work, path) == Prefixes(<< >>, Split(Join(work, path)))

\* ------------------------------------------------- protocol client: paths
\* pysmb drops one leading and one trailing separator of every path
StripLead(s) == IF Len(s) > 0 /\ s[1] = SLASH THEN Tail(s) ELSE s
StripTrail(s) == IF Len(s) > 0 /\ s[Len(s)] = SLASH
                 THEN SubSeq(s, 1, Len(s) - 1) ELSE s
ClientPath(s) == StripTrail(StripLead(s))

LastSlash(s) == CHOOSE i \in 1..Len(s) :
                   s[i] = SLASH /\ \A j \in (i + 1)..Len(s) : s[j] # SLASH
\* the directory that holds the object named by a client path
Parent(cp) == IF HasSlash(cp) THEN SubSeq(cp, 1, LastSlash(cp) - 1) ELSE << >>

\* ---------------------------------------------------------- file contents
\* marks a client path that holds no file; no content equals it (bytes are >= 1)
Missing == <<-1>>
RECURSIVE Upto(_)
Upto(n) == IF n = 0 THEN << >> ELSE Append(Upto(n - 1), n)
\* the byte sequences a caller writes: <<>>, <<1>>, <<1,2>>, ...
SourceData == {Upto(n) : n \in 0..MaxLen}

\* ------------------------------------------------------------------ state
VARIABLES
    work_dir,    \* self.work_dir, fixed at construction
    connected,   \* the protocol client holds a live connection
    depth,       \* number of `with connector:` blocks the caller is inside
    dirs,        \* remote share: client paths of the existing directories
    files,       \* remote share: client path -> content, or Missing
    denied,      \* remote share: client paths where creation is refused
    listing,     \* remote share: the raw entries listPath answers with
    staging,     \* local disk: temporary file id -> file, or NoFile
    scopes,      \* ids of the staging files owned by open retrieve_file scopes
    procs,       \* concurrent sessions: session -> the step its operation is at
    last         \* the most recent call of the caller and what it did

vars == <<work_dir, connected, depth, dirs, files, denied, listing, staging,
          scopes, procs, last>>

\* marks a staging id with no file on disk
NoFile == [content |-> << >>, pos |-> -1]
\* a fresh tempfile.NamedTemporaryFile(): empty, positioned at its start
NewTemp == [content |-> << >>, pos |-> 0]
\* one slot more than the open scopes, for a copy made inside a scope
StagingIds == 1..(MaxScopes + 1)
\* a temporary file created under one fixed name
FixedId == CHOOSE i \in StagingIds : TRUE
\* the name of a new temporary file: one that no file on disk has
FreeId == CHOOSE i \in StagingIds : staging[i] = NoFile
HasFreeId == \E i \in StagingIds : staging[i] = NoFile

\* the bytes a reader of the file object gets: from its position to its end
Readable(f) == SubSeq(f.content, f.pos + 1, Len(f.content))

Resolve(path) == Join(work_dir, path)
\* the client path a relative path of the caller resolves to
Key(path) == ClientPath(Resolve(path))
FileKeys == {ClientPath(Join(work_dir, p)) : p \in FilePaths}

IsFile(fs, cp) == cp \in DOMAIN fs /\ fs[cp] # Missing
IsDir(ds, cp) == cp = << >> \/ cp \in ds
Exists(ds, fs, cp) == IsDir(ds, cp) \/ IsFile(fs, cp)

\* the sessions that run operations at the same time, one thread each
Sessions == {"s1", "s2"}
\* a session that runs no operation
NoOp == [pc |-> "idle", op |-> "none", old |-> << >>, new |-> << >>, id |-> 0,
         got |-> << >>, sent |-> << >>, raised |-> FALSE]

\* what a call record remembers of the call made before it
NoPrev == [op |-> "none", path |-> << >>, path2 |-> << >>, raised |-> FALSE,
           content |-> << >>, changed |-> FALSE]
Summary(c) == [op |-> c.op, path |-> c.path, path2 |-> c.path2,
               raised |-> c.raised, content |-> c.content, changed |-> c.changed]

\* the record kept of the caller's most recent call (a history variable):
\*   calls    the calls made to the protocol client, in order, with their paths
\*   raised   the call ended by raising to the caller
\*   result   what it returned or yielded
\*   content  the bytes it moved (the source's content)
\*   fault    the network failed its retrieve, list or delete call
\*   changed  the remote share differs from what it was before the call
\*   depth0   the number of open `with connector:` blocks when it was made
\*   prev     the call before it, kept by a read that follows a completed
\*            copy or move and by a create_dir that follows a create_dir
Call(op, path, path2, calls, raised, result, content, fault, changed) ==
    [op |-> op, path |-> path, path2 |-> path2, calls |-> calls,
     raised |-> raised, result |-> result, content |-> content,
     fault |-> fault, changed |-> changed, depth0 |-> depth,
     prev |-> IF \/ op = "read_file" /\ last.op \in {"copy_file", "move_file"}
                    /\ ~last.raised
                 \/ op = "create_dir" /\ last.op = "create_dir"
              THEN Summary(last) ELSE NoPrev]

NoCall == [op |-> "none", path |-> << >>, path2 |-> << >>, calls |-> << >>,
           raised |-> FALSE, result |-> << >>, content |-> << >>,
           fault |-> FALSE, changed |-> FALSE, depth0 |-> 0, prev |-> NoPrev]

\* the directories that make up the work root on the share
WorkRootDirs == IF work_dir = << >> THEN {} ELSE {ClientPath(work_dir)}

\* SMBConnector(...): a client that has not connected, nothing staged
Constructed ==
    /\ work_dir \in WorkDirs
    /\ connected = FALSE
    /\ depth = 0
    /\ staging = [i \in StagingIds |-> NoFile]
    /\ scopes = {}
    /\ procs = [s \in Sessions |-> NoOp]
    /\ last = NoCall

\* inside one `with connector:` block whose connect succeeded
Entered ==
    /\ work_dir \in WorkDirs
    /\ connected = TRUE
    /\ depth = 1
    /\ staging = [i \in StagingIds |-> NoFile]
    /\ scopes = {}
    /\ procs = [s \in Sessions |-> NoOp]
    /\ last = NoCall

Init ==
    /\ Constructed
    /\ dirs = WorkRootDirs
    /\ files = [cp \in FileKeys |-> Missing]
    /\ denied = {}
    /\ listing = << >>

\* ---------------------------------------------------------------- session
\* a connect result that is never checked
EnterNeverRaises(ok) == FALSE

\* __enter__: assert self.conn.connect(...); return self
EnterRaises(ok) == ~ok

\* connect replaces whatever connection the client held
Enter(ok) ==
    /\ EnterRaises(ok) \/ depth < MaxDepth
    /\ connected' = ok
    /\ depth' = IF EnterRaises(ok) THEN depth ELSE depth + 1
    /\ last' = Call("enter", << >>, << >>, <<<<"connect", << >> >>>>,
                    EnterRaises(ok), <<ok>>, << >>, FALSE, FALSE)
    /\ UNCHANGED <<work_dir, procs, listing, dirs, files, denied, staging, scopes>>

\* __exit__(exc_type, exc_val, exc_tb): self.conn.close()
ExitCloses(exc) == TRUE

\* the end of a `with connector:` block, left normally or by an exception
Exit(exc) ==
    /\ depth > 0
    /\ connected' = IF ExitCloses(exc) THEN FALSE ELSE connected
    /\ depth' = depth - 1
    /\ last' = Call("exit", << >>, << >>,
                    IF ExitCloses(exc) THEN <<<<"close", << >> >>>> ELSE << >>,
                    FALSE, <<exc>>, << >>, FALSE, FALSE)
    /\ UNCHANGED <<work_dir, procs, listing, dirs, files, denied, staging, scopes>>

\* -------------------------------------------- protocol client: file calls
\* how a storeFile call ends: completed, refused before any byte is written,
\* or broken off after k bytes reached the destination (nothing is rolled back)
StoreOutcomes == {<<"ok", 0>>, <<"refused", 0>>} \cup {<<"partial", k>> : k \in 0..MaxLen}
\* how the client calls of copy_file end: the retrieve fails for a reason of
\* the network, or it is served and the store ends in one of its outcomes
CopyOutcomes == {<<"retrieve", 0>>} \cup StoreOutcomes
\* move_file adds: copy_file is served and the delete fails for such a reason
MoveOutcomes == CopyOutcomes \cup {<<"delete", 0>>}

\* conn.retrieveFile(share, path, file_obj): appends the remote file's bytes to
\* file_obj and leaves its position behind them; fails on a missing file
ClientRetrieve(path, f, fault) ==
    LET cp == ClientPath(path)
        ok == connected /\ ~fault /\ IsFile(files, cp)
    IN [ok |-> ok,
        file |-> IF ok THEN [content |-> SubSeq(f.content, 1, f.pos) \o files[cp],
                             pos |-> f.pos + Len(files[cp])]
                 ELSE f]

\* conn.storeFile(share, path, file_obj): writes what file_obj yields from its
\* current position on, replacing the destination; returns the byte count
ClientStore(fs, path, f, out) ==
    LET cp == ClientPath(path)
        data == Readable(f)
        can == connected /\ cp \in DOMAIN fs /\ ~IsDir(dirs, cp)
               /\ IsDir(dirs, Parent(cp))
    IN IF can /\ out[1] = "ok"
       THEN [ok |-> TRUE, files |-> [fs EXCEPT ![cp] = data], count |-> Len(data)]
       ELSE IF can /\ out[1] = "partial" /\ out[2] <= Len(data)
       THEN [ok |-> FALSE, files |-> [fs EXCEPT ![cp] = SubSeq(data, 1, out[2])],
             count |-> 0]
       ELSE [ok |-> FALSE, files |-> fs, count |-> 0]

\* a delete that takes every file of the directory with it
ClientDeleteSiblings(fs, path, fault) ==
    LET cp == ClientPath(path)
        ok == connected /\ ~fault /\ IsFile(fs, cp)
    IN [ok |-> ok,
        files |-> IF ok THEN [k \in DOMAIN fs |->
                                 IF Parent(k) = Parent(cp) THEN Missing ELSE fs[k]]
                  ELSE fs]

\* conn.deleteFiles(share, pattern, delete_folders=False): removes the file the
\* pattern names; fails when nothing matches
ClientDelete(fs, path, fault) ==
    LET cp == ClientPath(path)
        ok == connected /\ ~fault /\ IsFile(fs, cp)
    IN [ok |-> ok, files |-> IF ok THEN [fs EXCEPT ![cp] = Missing] ELSE fs]

\* ------------------------------------------------------------- file reads
\* retrieve_file: file_obj.seek(0) before the yield
RetrieveSeek(f) == [f EXCEPT !.pos = 0]

\* a scope that ends without closing its temporary file
RetrieveNoCleanup(st, id) == st

\* retrieve_file: finally: file_obj.close(), which deletes the temporary file
RetrieveFinally(st, id) == [st EXCEPT ![id] = NoFile]

\* with connector.retrieve_file(path) as f: the code up to the yield
ReadEnter(path, fault) ==
    /\ HasFreeId /\ Cardinality(scopes) < MaxScopes
    /\ \E id \in {FreeId}, r \in {ClientRetrieve(Resolve(path), NewTemp, fault)} :
          IF r.ok
          THEN /\ staging' = [staging EXCEPT ![id] = RetrieveSeek(r.file)]
               /\ scopes' = scopes \cup {id}
               /\ last' = Call("read_file", path, << >>,
                               <<<<"retrieveFile", Resolve(path)>>>>, FALSE,
                               Readable(RetrieveSeek(r.file)), << >>, fault, FALSE)
          ELSE /\ staging' = RetrieveFinally([staging EXCEPT ![id] = r.file], id)
               /\ scopes' = scopes
               /\ last' = Call("read_file", path, << >>,
                               <<<<"retrieveFile", Resolve(path)>>>>, TRUE,
                               << >>, << >>, fault, FALSE)
    /\ UNCHANGED <<work_dir, procs, listing, connected, depth, dirs, files, denied>>

\* the end of the caller's block: the generator runs its finally clause,
\* whether the block ended normally or raised
ReadExit(id, exc) ==
    /\ id \in scopes
    /\ staging' = RetrieveFinally(staging, id)
    /\ scopes' = scopes \ {id}
    /\ last' = Call("read_exit", << >>, << >>, << >>, exc, << >>, << >>, FALSE, FALSE)
    /\ UNCHANGED <<work_dir, procs, listing, connected, depth, dirs, files, denied>>

\* ------------------------------------------------------------ file writes
\* a result that does not depend on the count
StoreAlwaysTrue(bytes_count) == TRUE

\* store_file(path, file_obj): True iff the client reports a nonzero count
StoreResult(bytes_count) == bytes_count # 0

\* store_file(path, file_obj) for a file object holding src and positioned at
\* offset pos: the client stores, and counts, what follows the position
WriteFileAt(path, src, pos, out) ==
    /\ \E s \in {ClientStore(files, Resolve(path), [content |-> src, pos |-> pos], out)} :
          /\ out[2] <= Len(src) - pos
          /\ files' = s.files
          /\ last' = Call("write_file", path, << >>,
                          <<<<"storeFile", Resolve(path)>>>>, ~s.ok,
                          IF s.ok THEN <<StoreResult(s.count)>> ELSE << >>, src,
                          FALSE, s.files # files)
    /\ UNCHANGED <<work_dir, procs, listing, connected, depth, dirs, denied, staging, scopes>>

\* store_file(path, file_obj) for a file object positioned at its start
WriteFile(path, src, out) == WriteFileAt(path, src, 0, out)

\* delete_files(file_pattern, delete_folders=False)
DeleteFiles(path, fault) ==
    /\ \E d \in {ClientDelete(files, Resolve(path), fault)} :
          /\ files' = d.files
          /\ last' = Call("delete_files", path, << >>,
                          <<<<"deleteFiles", Resolve(path)>>>>, ~d.ok, << >>, << >>,
                          fault, d.files # files)
    /\ UNCHANGED <<work_dir, procs, listing, connected, depth, dirs, denied, staging, scopes>>

\* -------------------------------------------------------------- copy/move
\* a copy that stores from where the retrieve left the file object
CopyNoSeek(f) == f

\* copy_file: file_obj.seek(0) between the retrieve and the store
CopySeek(f) == [f EXCEPT !.pos = 0]

\* copy_file: the end of `with tempfile.NamedTemporaryFile() as file_obj`
CopyCleanup(st, id) == [st EXCEPT ![id] = NoFile]

\* copy_file(old_path, new_path) as a whole: what it leaves behind
CopyResult(old_path, new_path, out) ==
    LET id == FreeId
        r == ClientRetrieve(Resolve(old_path), NewTemp, out[1] = "retrieve")
        f == CopySeek(r.file)
        s == ClientStore(files, Resolve(new_path), f,
                         IF out[1] = "delete" THEN <<"ok", 0>> ELSE out)
    IN IF ~r.ok
       THEN [raised |-> TRUE, files |-> files, content |-> << >>,
             staging |-> CopyCleanup([staging EXCEPT ![id] = r.file], id),
             calls |-> <<<<"retrieveFile", Resolve(old_path)>>>>,
             stage |-> "retrieve"]
       ELSE [raised |-> ~s.ok, files |-> s.files, content |-> r.file.content,
             staging |-> CopyCleanup([staging EXCEPT ![id] = f], id),
             calls |-> <<<<"retrieveFile", Resolve(old_path)>>,
                         <<"storeFile", Resolve(new_path)>>>>,
             stage |-> IF s.ok THEN "done" ELSE "store"]

CopyFile(old_path, new_path, out) ==
    /\ HasFreeId
    /\ \E c \in {CopyResult(old_path, new_path, out)} :
          /\ out[2] <= Len(c.content)
          /\ files' = c.files
          /\ staging' = c.staging
          /\ last' = Call("copy_file", old_path, new_path, c.calls, c.raised,
                          <<c.stage>>, c.content, out[1] = "retrieve",
                          c.files # files)
    /\ UNCHANGED <<work_dir, procs, listing, connected, depth, dirs, denied, scopes>>

\* a move that deletes the path it has just written
MoveDeletesNew(old_path, new_path) == Resolve(new_path)

\* move_file: the path handed to deleteFiles after the copy
MoveDeletePath(old_path, new_path) == Resolve(old_path)

\* a move that goes on to its delete whatever became of the copy
MoveDeletesAlways(c) == TRUE

\* move_file: the lines after self.copy_file(...) run only if it returned
MoveDeletes(c) == ~c.raised

\* move_file(old_path, new_path): copy_file, then deleteFiles on the old path
MoveFile(old_path, new_path, out) ==
    /\ HasFreeId
    /\ \E c \in {CopyResult(old_path, new_path, out)} :
       \E d \in {ClientDelete(c.files, MoveDeletePath(old_path, new_path),
                             out[1] = "delete")} :
          /\ out[2] <= Len(c.content)
          /\ staging' = c.staging
          /\ IF ~MoveDeletes(c)
             THEN /\ files' = c.files
                  /\ last' = Call("move_file", old_path, new_path, c.calls, TRUE,
                                  <<c.stage>>, c.content, out[1] = "retrieve",
                                  c.files # files)
             ELSE /\ files' = d.files
                  /\ last' = Call("move_file", old_path, new_path,
                                  Append(c.calls, <<"deleteFiles",
                                                   MoveDeletePath(old_path, new_path)>>),
                                  ~d.ok, <<IF d.ok THEN "done" ELSE "delete">>,
                                  c.content, out[1] = "delete", d.files # files)
    /\ UNCHANGED <<work_dir, procs, listing, connected, depth, dirs, denied, scopes>>

\* ------------------------------------------- protocol client: directories
\* a client path names an object only if none of its components is empty
RECURSIVE NoEmptyPart(_)
NoEmptyPart(parts) ==
    parts = << >> \/ (Head(parts) # << >> /\ NoEmptyPart(Tail(parts)))
ValidName(cp) == NoEmptyPart(Split(cp))

\* conn.createDirectory(share, path): "ok", or the reason of its OperationFailure
ClientCreate(ds, path) ==
    LET cp == ClientPath(path)
    IN IF Exists(ds, files, cp) THEN "exists"
       ELSE IF ~ValidName(cp) THEN "invalid"
       ELSE IF ~IsDir(ds, Parent(cp)) THEN "noparent"
       ELSE IF cp \in denied THEN "denied"
       ELSE "ok"

\* conn.deleteDirectory(share, path): removes an existing, empty directory
ClientDeleteDir(path, fault) ==
    LET cp == ClientPath(path)
    IN /\ connected /\ ~fault
       /\ cp \in dirs
       /\ \A d \in dirs : d = << >> \/ Parent(d) # cp
       /\ \A k \in DOMAIN files : files[k] = Missing \/ Parent(k) # cp

\* ------------------------------------------------------------ directories
\* a handler that lets "already exists" through
SwallowedUnlessExists(reason) == reason # "exists"

\* create_dir: `except OperationFailure: pass` catches every reason alike
Swallowed(reason) == TRUE

\* the while loop of create_dir over the remaining values of current_path;
\* a client without a connection raises an error that is no OperationFailure
RECURSIVE CreateWalk(_, _, _)
CreateWalk(paths, ds, calls) ==
    IF paths = << >> THEN [dirs |-> ds, calls |-> calls, raised |-> FALSE]
    ELSE IF ~connected
    THEN [dirs |-> ds, raised |-> TRUE,
          calls |-> Append(calls, <<"createDirectory", Head(paths)>>)]
    ELSE IF ClientCreate(ds, Head(paths)) = "ok"
    THEN CreateWalk(Tail(paths), ds \cup {ClientPath(Head(paths))},
                    Append(calls, <<"createDirectory", Head(paths)>>))
    ELSE IF Swallowed(ClientCreate(ds, Head(paths)))
    THEN CreateWalk(Tail(paths), ds,
                    Append(calls, <<"createDirectory", Head(paths)>>))
    ELSE [dirs |-> ds, raised |-> TRUE,
          calls |-> Append(calls, <<"createDirectory", Head(paths)>>)]

\* create_dir(path)
CreateDir(path) ==
    /\ \E w \in {CreateWalk(CreateDirPaths(work_dir, path), dirs, << >>)} :
          /\ dirs' = w.dirs
          /\ last' = Call("create_dir", path, << >>, w.calls, w.raised, << >>, << >>,
                          FALSE, w.dirs # dirs)
    /\ UNCHANGED <<work_dir, procs, listing, connected, depth, files, denied, staging, scopes>>

\* delete_dir(path)
DeleteDir(path, fault) ==
    /\ \E ok \in {ClientDeleteDir(Resolve(path), fault)} :
          /\ dirs' = IF ok THEN dirs \ {ClientPath(Resolve(path))} ELSE dirs
          /\ last' = Call("delete_dir", path, << >>,
                          <<<<"deleteDirectory", Resolve(path)>>>>, ~ok, << >>, << >>,
                          fault, ok)
    /\ UNCHANGED <<work_dir, procs, listing, connected, depth, files, denied, staging, scopes>>

\* ---------------------------------------------------------------- listing
\* the raw entries conn.listPath may return
RawNames == {".", "..", "f"}
RawEntries == {[filename |-> n, isDirectory |-> d, isReadOnly |-> r] :
                 n \in RawNames, d \in BOOLEAN, r \in BOOLEAN}
RawListings == UNION {[1..n -> RawEntries] : n \in 0..MaxRaw}

\* SMBFile(name=f.filename, is_dir=f.isDirectory, read_only=f.isReadOnly)
SMBFile(f) == [name |-> f.filename, is_dir |-> f.isDirectory,
               read_only |-> f.isReadOnly]
RECURSIVE MapFiles(_)
MapFiles(raw) == IF raw = << >> THEN << >>
                 ELSE <<SMBFile(Head(raw))>> \o MapFiles(Tail(raw))

\* a removal that drops the first element, whatever it is
RemoveHead(list, x) == IF list = << >> THEN << >> ELSE Tail(list)

\* list.remove(x): drops the first element equal to x
RECURSIVE Remove(_, _)
Remove(list, x) == IF list = << >> THEN << >>
                   ELSE IF Head(list) = x THEN Tail(list)
                   ELSE <<Head(list)>> \o Remove(Tail(list), x)

\* the test of list_dir's filter loop
IsPseudo(file) == file.is_dir /\ file.name \in {".", ".."}

\* for file in files_list: the loop runs over the list it removes from, so
\* the element that follows a removed one is skipped
RECURSIVE FilterAt(_, _)
FilterAt(i, files_list) ==
    IF i > Len(files_list) THEN files_list
    ELSE IF IsPseudo(files_list[i])
    THEN FilterAt(i + 1, Remove(files_list, files_list[i]))
    ELSE FilterAt(i + 1, files_list)
FilterInPlace(copy, files_list) == FilterAt(1, files_list)

\* for file in files_list[:]: if ...: files_list.remove(file)
RECURSIVE FilterLoop(_, _)
FilterLoop(copy, files_list) ==
    IF copy = << >> THEN files_list
    ELSE IF IsPseudo(Head(copy))
    THEN FilterLoop(Tail(copy), Remove(files_list, Head(copy)))
    ELSE FilterLoop(Tail(copy), files_list)

\* list_dir(path)
ListDir(path, fault) ==
    /\ last' = IF connected /\ ~fault
               THEN Call("list_dir", path, << >>, <<<<"listPath", Resolve(path)>>>>,
                         FALSE, FilterLoop(MapFiles(listing), MapFiles(listing)),
                         << >>, fault, FALSE)
               ELSE Call("list_dir", path, << >>, <<<<"listPath", Resolve(path)>>>>,
                         TRUE, << >>, << >>, fault, FALSE)
    /\ UNCHANGED <<work_dir, procs, listing, connected, depth, dirs, files, denied, staging, scopes>>

\* ---------------------------------------------------------- specifications
Next ==
    \/ \E ok \in BOOLEAN : Enter(ok)
    \/ \E exc \in BOOLEAN : Exit(exc)
    \/ \E p \in DirPaths, fault \in BOOLEAN : ListDir(p, fault)
    \/ \E p \in FilePaths, fault \in BOOLEAN : ReadEnter(p, fault)
    \/ \E id \in StagingIds, exc \in BOOLEAN : ReadExit(id, exc)
    \/ \E p \in FilePaths, src \in SourceData, out \in StoreOutcomes :
          WriteFile(p, src, out)
    \/ \E p \in FilePaths, fault \in BOOLEAN : DeleteFiles(p, fault)
    \/ \E p \in DirPaths : CreateDir(p)
    \/ \E p \in DirPaths, fault \in BOOLEAN : DeleteDir(p, fault)
    \/ \E a \in FilePaths, b \in FilePaths, out \in CopyOutcomes :
          CopyFile(a, b, out)
    \/ \E a \in FilePaths, b \in FilePaths, out \in MoveOutcomes :
          MoveFile(a, b, out)

\* the connector from its construction on, every operation available
Spec == Init /\ [][Next]_vars

\* the session and the listing, over every raw listing the client may answer
InitSession ==
    /\ Constructed
    /\ dirs = WorkRootDirs
    /\ files = [cp \in FileKeys |-> Missing]
    /\ denied = {}
    /\ listing \in RawListings

NextSession ==
    \/ \E ok \in BOOLEAN : Enter(ok)
    \/ \E exc \in BOOLEAN : Exit(exc)
    \/ \E p \in DirPaths, fault \in BOOLEAN : ListDir(p, fault)

SpecSession == InitSession /\ [][NextSession]_vars

\* the file operations and the listing of an entered session whose work root
\* "w" is on the share
InitFiles ==
    /\ Entered
    /\ work_dir = P_w
    /\ dirs = WorkRootDirs
    /\ files = [cp \in FileKeys |-> Missing]
    /\ denied = {}
    /\ listing = << >>

NextFiles ==
    \/ \E p \in DirPaths, fault \in BOOLEAN : ListDir(p, fault)
    \/ \E p \in FilePaths, fault \in BOOLEAN : ReadEnter(p, fault)
    \/ \E id \in StagingIds, exc \in BOOLEAN : ReadExit(id, exc)
    \/ \E p \in FilePaths, src \in SourceData, out \in StoreOutcomes :
          WriteFile(p, src, out)
    \/ \E p \in FilePaths, fault \in BOOLEAN : DeleteFiles(p, fault)
    \/ \E a \in FilePaths, b \in FilePaths, out \in CopyOutcomes :
          CopyFile(a, b, out)
    \/ \E a \in FilePaths, b \in FilePaths, out \in MoveOutcomes :
          MoveFile(a, b, out)

SpecFiles == InitFiles /\ [][NextFiles]_vars

\* writes from file objects positioned anywhere in their content, and deletes
NextWrite ==
    \/ \E p \in FilePaths, src \in SourceData, out \in StoreOutcomes :
          \E pos \in 0..Len(src) : WriteFileAt(p, src, pos, out)
    \/ \E p \in FilePaths, fault \in BOOLEAN : DeleteFiles(p, fault)

SpecWrite == InitFiles /\ [][NextWrite]_vars

\* the directory operations of an entered session, over shares with and
\* without the work root, a file in the way, and a refused prefix
InitDirs ==
    /\ Entered
    /\ dirs \in {{}, WorkRootDirs}
    /\ files \in {[cp \in FileKeys |-> Missing],
                  [cp \in FileKeys |-> IF cp = ClientPath(Resolve(P_a)) /\ dirs = WorkRootDirs
                                       THEN <<1>> ELSE Missing]}
    /\ denied \in {{}, {ClientPath(Resolve(P_ab))}}
    /\ listing = << >>

NextDirs ==
    \/ \E p \in DirPaths : CreateDir(p)
    \/ \E p \in DirPaths, fault \in BOOLEAN : DeleteDir(p, fault)

SpecDirs == InitDirs /\ [][NextDirs]_vars

\* relative paths handed to every operation that takes one path or two,
\* the empty path included
PathInputs == {P_empty, P_a, P_b}

\* every operation of an entered session that resolves its paths with one
\* join, over both work roots, on a network that fails no call: a call fails
\* only for what the share holds
InitPaths ==
    /\ Entered
    /\ dirs = WorkRootDirs
    /\ files = [cp \in FileKeys |-> Missing]
    /\ denied = {}
    /\ listing = << >>

NextPaths ==
    \/ \E p \in PathInputs : ListDir(p, FALSE)
    \/ \E p \in PathInputs : ReadEnter(p, FALSE)
    \/ \E id \in StagingIds : ReadExit(id, FALSE)
    \/ \E p \in PathInputs, src \in SourceData : WriteFile(p, src, <<"ok", 0>>)
    \/ \E p \in PathInputs : DeleteFiles(p, FALSE)
    \/ \E p \in PathInputs : DeleteDir(p, FALSE)
    \/ \E a \in PathInputs, b \in PathInputs : CopyFile(a, b, <<"ok", 0>>)
    \/ \E a \in PathInputs, b \in PathInputs : MoveFile(a, b, <<"ok", 0>>)

SpecPaths == InitPaths /\ [][NextPaths]_vars

\* ------------------------------------------------------ concurrent sessions
\* Two connectors on one machine, each used by its own thread: every line of
\* retrieve_file and copy_file that touches the staging file or the share is a
\* step of its own, and the steps of the two threads interleave freely.  Both
\* connections are live; the temporary files of both live on the same disk.

\* tempfile.NamedTemporaryFile(): the first line of retrieve_file's body and of
\* copy_file's with statement; the file it creates has a name no file has
Open(s, op, old_path, new_path) ==
    /\ procs[s].pc = "idle" /\ HasFreeId
    /\ \E id \in {FreeId} :
          /\ staging' = [staging EXCEPT ![id] = NewTemp]
          /\ procs' = [procs EXCEPT ![s] =
                          [NoOp EXCEPT !.pc = "retrieve", !.op = op, !.old = old_path,
                                       !.new = new_path, !.id = id]]
    /\ UNCHANGED <<work_dir, connected, depth, dirs, files, denied, listing,
                   scopes, last>>

\* self.conn.retrieveFile(self.shared_folder, full_path, file_obj)
Retrieve(s, fault) ==
    /\ procs[s].pc = "retrieve"
    /\ \E r \in {ClientRetrieve(Resolve(procs[s].old), staging[procs[s].id], fault)} :
          /\ staging' = [staging EXCEPT ![procs[s].id] = r.file]
          /\ procs' = [procs EXCEPT ![s] =
                          IF r.ok
                          THEN [@ EXCEPT !.pc = "seek",
                                         !.got = files[Key(procs[s].old)]]
                          ELSE [@ EXCEPT !.pc = "cleanup", !.raised = TRUE]]
    /\ UNCHANGED <<work_dir, connected, depth, dirs, files, denied, listing,
                   scopes, last>>

\* file_obj.seek(0)
Seek(s) ==
    /\ procs[s].pc = "seek"
    /\ staging' = [staging EXCEPT ![procs[s].id] =
                      IF procs[s].op = "copy_file" THEN CopySeek(@)
                      ELSE RetrieveSeek(@)]
    /\ procs' = [procs EXCEPT ![s].pc =
                    IF procs[s].op = "copy_file" THEN "store" ELSE "yield"]
    /\ UNCHANGED <<work_dir, connected, depth, dirs, files, denied, listing,
                   scopes, last>>

\* copy_file: self.conn.storeFile(self.shared_folder, full_new_path, file_obj)
Store(s, out) ==
    /\ procs[s].pc = "store"
    /\ out[2] <= Len(Readable(staging[procs[s].id]))
    /\ \E st \in {ClientStore(files, Resolve(procs[s].new), staging[procs[s].id], out)} :
          /\ files' = st.files
          /\ procs' = [procs EXCEPT ![s] =
                          [@ EXCEPT !.pc = "cleanup", !.raised = ~st.ok,
                                    !.sent = IF st.ok
                                             THEN <<Readable(staging[procs[s].id])>>
                                             ELSE << >>]]
    /\ UNCHANGED <<work_dir, connected, depth, dirs, denied, listing, staging,
                   scopes, last>>

\* retrieve_file: yield file_obj.file; the caller's block reads the file it
\* was handed and ends, normally or by raising
Yield(s, exc) ==
    /\ procs[s].pc = "yield"
    /\ procs' = [procs EXCEPT ![s] =
                    [@ EXCEPT !.pc = "cleanup", !.raised = exc,
                              !.sent = <<Readable(staging[procs[s].id])>>]]
    /\ UNCHANGED <<work_dir, connected, depth, dirs, files, denied, listing,
                   staging, scopes, last>>

\* retrieve_file: finally: file_obj.close(); copy_file: the end of the with
\* statement.  Either deletes the file the operation created, and no other
Close(s) ==
    /\ procs[s].pc = "cleanup"
    /\ staging' = IF procs[s].op = "copy_file"
                  THEN CopyCleanup(staging, procs[s].id)
                  ELSE RetrieveFinally(staging, procs[s].id)
    /\ procs' = [procs EXCEPT ![s] = NoOp]
    /\ UNCHANGED <<work_dir, connected, depth, dirs, files, denied, listing,
                   scopes, last>>

\* both sessions entered, over every content of the two files
InitConc ==
    /\ Entered
    /\ work_dir = P_w
    /\ dirs = WorkRootDirs
    /\ files \in [FileKeys -> SourceData \cup {Missing}]
    /\ denied = {}
    /\ listing = << >>

NextConc ==
    \/ \E s \in Sessions, a \in FilePaths : Open(s, "read_file", a, << >>)
    \/ \E s \in Sessions, a \in FilePaths, b \in FilePaths :
          Open(s, "copy_file", a, b)
    \/ \E s \in Sessions, fault \in BOOLEAN : Retrieve(s, fault)
    \/ \E s \in Sessions : Seek(s)
    \/ \E s \in Sessions, out \in StoreOutcomes : Store(s, out)
    \/ \E s \in Sessions, exc \in BOOLEAN : Yield(s, exc)
    \/ \E s \in Sessions : Close(s)

SpecConc == InitConc /\ [][NextConc]_vars

\* ------------------------------------------------------------------ claims
CreateCall(path) == <<"createDirectory", path>>
PseudoNames == {".", ".."}

\* C1: after move_file(A, B) with A # B completed without raising, B holds the
\* content c that A held and A holds no file: a read of B that the network
\* does not fail succeeds and yields exactly c, and a read of A raises.
C1_MoveThenRead ==
    /\ (last.op = "move_file" /\ ~last.raised /\ last.path # last.path2)
          => /\ files[Key(last.path2)] = last.content
             /\ files[Key(last.path)] = Missing
    /\ (last.op = "read_file" /\ last.prev.op = "move_file"
        /\ last.prev.path # last.prev.path2)
          => /\ (last.path = last.prev.path2 /\ ~last.fault)
                   => (~last.raised /\ last.result = last.prev.content)
             /\ (last.path = last.prev.path) => last.raised

\* a read of B that yielded bytes right after a completed move of A to B
C1_Witness ==
    /\ last.op = "read_file" /\ last.prev.op = "move_file"
    /\ last.prev.path # last.prev.path2 /\ last.path = last.prev.path2
    /\ ~last.raised /\ last.result # << >>

\* C2: a read of B that follows a completed copy_file(A, B) of a non-empty
\* content c, and that the network does not fail, yields exactly c.
C2_CopyThenRead ==
    (last.op = "read_file" /\ last.prev.op = "copy_file"
     /\ last.prev.content # << >> /\ last.path = last.prev.path2 /\ ~last.fault)
       => (~last.raised /\ last.result = last.prev.content)

\* a read of B that yielded bytes right after a completed copy of A to B
C2_Witness ==
    /\ last.op = "read_file" /\ last.prev.op = "copy_file"
    /\ last.prev.path # last.prev.path2 /\ last.path = last.prev.path2
    /\ ~last.raised /\ last.result # << >>

\* C3: when copy_file(A, B) retrieved A and its store to B failed, the failure
\* reaches the caller and A still holds the content that was retrieved.
C3_StoreFailureLeavesSource ==
    (last.op = "copy_file" /\ last.result = <<"store">>)
       => (last.raised /\ files[Key(last.path)] = last.content)

\* C4: a create_dir(p) that follows a create_dir(p) which returned raises
\* nothing and leaves the remote directory structure as the first call left it.
C4_CreateDirIdempotent ==
    (last.op = "create_dir" /\ last.prev.op = "create_dir"
     /\ last.prev.path = last.path /\ ~last.prev.raised)
       => (~last.raised /\ ~last.changed)

\* a second create_dir("a/b/c") after a first one that created directories
C4_Witness ==
    /\ last.op = "create_dir" /\ last.prev.op = "create_dir"
    /\ last.prev.path = last.path /\ last.path = P_abc
    /\ last.prev.changed /\ ~last.raised

\* C5 as stated: a create_dir("a/b/c") that returns, with an empty work root,
\* has made exactly the three calls createDirectory("a"), ("a/b"), ("a/b/c"),
\* in that order.
C5_ThreeCalls ==
    (last.op = "create_dir" /\ work_dir = << >> /\ last.path = P_abc
     /\ ~last.raised)
       => last.calls = <<CreateCall(P_a), CreateCall(P_ab), CreateCall(P_abc)>>

\* C5 as amended: a create_dir("a/b/c") that returns, with an empty work root,
\* has made exactly the four calls createDirectory("/"), ("/a/"), ("/a/b/"),
\* ("/a/b/c/"), in that order: each path is the one before it extended by the
\* next component and "/".
C5_FourCalls ==
    (last.op = "create_dir" /\ work_dir = << >> /\ last.path = P_abc
     /\ ~last.raised)
       => last.calls = <<CreateCall(<<SLASH>>),
                         CreateCall(<<SLASH>> \o P_a \o <<SLASH>>),
                         CreateCall(<<SLASH>> \o P_ab \o <<SLASH>>),
                         CreateCall(<<SLASH>> \o P_abc \o <<SLASH>>)>>

\* create_dir("a/b/c") returned with an empty work root
C5_Witness ==
    /\ last.op = "create_dir" /\ work_dir = << >> /\ last.path = P_abc
    /\ ~last.raised

C7_LifecycleEnforced ==
    /\ (last.op = "enter" /\ last.depth0 > 0) => last.raised
    /\ (last.op \notin {"none", "enter", "exit", "read_exit"} /\ last.depth0 = 0)
          => (last.raised /\ last.calls = << >>)

\* C8: the end of a block closes the connection, however the block ended, and
\* the connection is not closed while a block is still open.
C8_ClosedAtBlockEndOnly ==
    /\ last.op = "exit" => ~connected
    /\ depth > 0 => connected

\* C9: an enter whose connect did not succeed raises and opens no block.
C9_FailedConnectRaises ==
    (last.op = "enter" /\ last.result = <<FALSE>>)
       => (last.raised /\ depth = last.depth0)

\* an enter whose connect failed
C9_Witness ==
    last.op = "enter" /\ last.result = <<FALSE>> /\ last.raised /\ ~connected

\* C10: every staging file on disk belongs to an open retrieve_file scope, so
\* none is left by a copy, a move, a failed read or a scope that has ended.
C10_NoStagingLeft ==
    \A id \in StagingIds : staging[id] # NoFile => id \in scopes

\* a retrieve_file scope ended by an exception of the caller, nothing staged
C10_Witness ==
    /\ last.op = "read_exit" /\ last.raised
    /\ \A id \in StagingIds : staging[id] = NoFile

\* C11: the only failure swallowed is "already exists" inside create_dir: a
\* create_dir one of whose createDirectory calls was refused raises, and every
\* other operation whose client call the network failed raises.
C11_OnlyExistsSwallowed ==
    /\ (last.op = "create_dir"
        /\ \E i \in 1..Len(last.calls) :
              ClientCreate(dirs, last.calls[i][2]) = "denied")
          => last.raised
    /\ (last.op \in {"list_dir", "read_file", "delete_files", "delete_dir",
                     "copy_file", "move_file"} /\ last.fault)
          => last.raised

\* C16: a create_dir that returns has attempted every prefix of the resolved
\* path, whatever failed on the way, and every prefix directory, the full
\* path included, exists afterwards.
C16_FullChainExists ==
    (last.op = "create_dir" /\ ~last.raised)
       => /\ Len(last.calls) = Len(CreateDirPaths(work_dir, last.path))
          /\ \A i \in 1..Len(last.calls) :
                ValidName(ClientPath(last.calls[i][2]))
                   => IsDir(dirs, ClientPath(last.calls[i][2]))

OneJoinOps == {"list_dir", "read_file", "write_file", "delete_files",
               "delete_dir", "copy_file", "move_file"}

\* C13: every path that list_dir, read_file, write_file, delete_files,
\* delete_dir, copy_file and move_file hand to the protocol client is the work
\* root, "/" and the relative path, character for character (the new path for
\* the store of a copy or move, the old path otherwise); the path move_file
\* deletes is the string it retrieved from.
C13_PathIsRootSlashPath ==
    last.op \in OneJoinOps
       => /\ Len(last.calls) >= 1
          /\ \A i \in 1..Len(last.calls) :
                last.calls[i][2] =
                   work_dir \o <<"/">>
                   \o (IF last.calls[i][1] = "storeFile"
                          /\ last.op \in {"copy_file", "move_file"}
                       THEN last.path2 ELSE last.path)
          /\ (last.op = "move_file" /\ Len(last.calls) = 3)
                => /\ last.calls[3][1] = "deleteFiles"
                   /\ last.calls[3][2] = last.calls[1][2]

\* a move that reached its delete under the empty work root: its paths start
\* with the separator
C13_Witness ==
    /\ last.op = "move_file" /\ Len(last.calls) = 3 /\ work_dir = << >>
    /\ last.calls[1][2] = <<"/">> \o last.path
    /\ last.calls[3][2] = <<"/">> \o last.path

\* the sessions that are inside an operation
Active == {s \in Sessions : procs[s].pc # "idle"}

\* C14: two sessions running copy_file and read_file at the same time never
\* hold the same staging file; the staging file of a running operation is on
\* disk until that operation deletes it; what an operation has retrieved is
\* what its staging file holds, and what it stored or yielded is exactly what
\* it retrieved from its own source.
C14_StagingNeverShared ==
    /\ \A s \in Active, t \in Active : s # t => procs[s].id # procs[t].id
    /\ \A s \in Active : staging[procs[s].id] # NoFile
    /\ \A s \in Active :
          /\ procs[s].pc \in {"seek", "store", "yield"}
                => staging[procs[s].id].content = procs[s].got
          /\ procs[s].sent # << >> => procs[s].sent = <<procs[s].got>>

\* one session has stored or yielded its bytes while the other, which
\* retrieved different bytes, is still between its retrieve and its cleanup
C14_Witness ==
    \E s \in Sessions, t \in Sessions :
       /\ s # t
       /\ procs[s].pc = "cleanup" /\ procs[s].sent # << >>
       /\ procs[t].pc \in {"seek", "store", "yield"}
       /\ procs[s].got # procs[t].got

\* the client calls of a move_file(A, B) that runs to its end
MoveCalls(old_path, new_path) ==
    <<<<"retrieveFile", Resolve(old_path)>>, <<"storeFile", Resolve(new_path)>>,
      <<"deleteFiles", Resolve(old_path)>>>>

\* C15: the client calls of move_file(A, B) are retrieve(A), store(B),
\* delete(A), in that order and cut off at the first that fails: a move whose
\* retrieve failed made one call, one whose store failed made two, and the
\* delete is made only by a move whose retrieve and store both returned.  In
\* the state between the copy and the delete, which is the state a delete
\* without effect leaves, A and B both hold the content.
C15_RetrieveStoreDelete ==
    last.op = "move_file"
       => /\ Len(last.calls) \in 1..3
          /\ last.calls = SubSeq(MoveCalls(last.path, last.path2), 1, Len(last.calls))
          /\ last.result = <<"retrieve">> => Len(last.calls) = 1
          /\ last.result = <<"store">> => Len(last.calls) = 2
          /\ Len(last.calls) = 3 => last.result \in {<<"done">>, <<"delete">>}
          /\ last.result = <<"delete">>
                => /\ files[Key(last.path)] = last.content
                   /\ files[Key(last.path2)] = last.content

\* a move of A to another path B that stopped at its delete: three calls
\* made, the content at both paths
C15_Witness ==
    /\ last.op = "move_file" /\ last.result = <<"delete">>
    /\ last.path # last.path2 /\ last.content # << >>
    /\ Len(last.calls) = 3
    /\ files[Key(last.path)] = files[Key(last.path2)]

\* the raw listing mapped entry by entry, in its order, without the entries
\* named "." or ".." (dirsOnly: without those of them flagged as directories)
RECURSIVE Expected(_, _)
Expected(raw, dirsOnly) ==
    IF raw = << >> THEN << >>
    ELSE (IF /\ Head(raw).filename \in PseudoNames
             /\ (dirsOnly => Head(raw).isDirectory)
          THEN << >>
          ELSE <<[name |-> Head(raw).filename, is_dir |-> Head(raw).isDirectory,
                  read_only |-> Head(raw).isReadOnly]>>)
         \o Expected(Tail(raw), dirsOnly)

C18_MoveNeverLoses ==
    last.op = "move_file"
       => /\ last.result = <<"retrieve">> => ~last.changed
          /\ last.result # <<"retrieve">>
                => \/ files[Key(last.path)] = last.content
                   \/ files[Key(last.path2)] = last.content

\* the files of the share other than those at the given client paths
OtherFiles(keys) == DOMAIN files \ keys

\* C19: a list_dir and a read_file leave the files and directories of the
\* share as they were; a copy_file(A, B) changes no directory and no file but
\* the one at B; a move_file(A, B) changes no directory and no file but those
\* at A and B.  This holds for every step, whether the operation returned or
\* raised.
C19_Frame ==
    [][/\ last'.op \in {"list_dir", "read_file"}
             => (files' = files /\ dirs' = dirs)
       /\ last'.op = "copy_file"
             => /\ dirs' = dirs
                /\ \A k \in OtherFiles({Key(last'.path2)}) : files'[k] = files[k]
       /\ last'.op = "move_file"
             => /\ dirs' = dirs
                /\ \A k \in OtherFiles({Key(last'.path), Key(last'.path2)}) :
                      files'[k] = files[k]]_vars

\* a move that deleted its source while the share holds another file, and
\* that file is still there
C19_Witness ==
    /\ last.op = "move_file" /\ last.result = <<"done">> /\ last.changed
    /\ files[Key(last.path)] = Missing
    /\ \E k \in OtherFiles({Key(last.path), Key(last.path2)}) : files[k] # Missing

====
